---- MODULE Spec2Model ----
(***************************************************************************)
(* Model of the license-plate OCR route (backend/routes/ocr.py): the plate *)
(* validator and scorer, the temporal vote buffers, the two-stage OCR      *)
(* pipeline and the /plate-base64, /plate and /clear-temporal handlers.    *)
(*                                                                         *)
(* A text is a sequence of one-character strings.  None is Python's None.  *)
(* An engine confidence is an integer number of hundredths (88 is 0.88),   *)
(* and a combined score is kept in hundredths as well.                     *)
(***************************************************************************)
EXTENDS Integers, Sequences, FiniteSets, TLC

\* Python's None where a text is expected (no text is a one-element sequence
\* holding a string that is no character).
None == <<"None">>

\* The absent trackId of a /clear-temporal body (data.get("trackId") is None).
NoTrackId == "<None>"

\* bool(x) of an optional text / of an optional track id
Truthy(text) == text # None /\ text # <<>>

TruthyId(track_id) == track_id # NoTrackId /\ track_id # ""

\* ------------------------------------------------------------------ texts

Digits == {"0", "1", "2", "3", "4", "5", "6", "7", "8", "9"}

UpperSeq == <<"A", "B", "C", "D", "E", "F", "G", "H", "I", "J", "K", "L", "M",
              "N", "O", "P", "Q", "R", "S", "T", "U", "V", "W", "X", "Y", "Z">>

LowerSeq == <<"a", "b", "c", "d", "e", "f", "g", "h", "i", "j", "k", "l", "m",
              "n", "o", "p", "q", "r", "s", "t", "u", "v", "w", "x", "y", "z">>

Range(s) == {s[i] : i \in DOMAIN s}

Letters == Range(UpperSeq)

Lower == Range(LowerSeq)

\* str.upper() on one character
UpperChar(c) ==
    IF c \in Lower THEN UpperSeq[CHOOSE i \in DOMAIN LowerSeq : LowerSeq[i] = c]
    ELSE c

\* str.upper()
Upper(s) == [i \in DOMAIN s |-> UpperChar(s[i])]

\* ''.join(c for c in s if keep(c))
RECURSIVE Filter(_, _)
Filter(s, keep) ==
    IF s = <<>> THEN <<>>
    ELSE (IF Head(s) \in keep THEN <<Head(s)>> ELSE <<>>) \o Filter(Tail(s), keep)

isalpha(c) == c \in Letters \cup Lower

isdigit(c) == c \in Digits

isalnum(c) == isalpha(c) \/ isdigit(c)

\* The characters the model's texts are written in.
Alphabet == Letters \cup Lower \cup Digits \cup {" ", "-", ".", "\n"}

\* str.strip(): leading and trailing whitespace removed
Whitespace == {" ", "\n"}

RECURSIVE LStrip(_)
LStrip(s) == IF s # <<>> /\ Head(s) \in Whitespace THEN LStrip(Tail(s)) ELSE s

RECURSIVE RStrip(_)
RStrip(s) ==
    IF s # <<>> /\ s[Len(s)] \in Whitespace THEN RStrip(SubSeq(s, 1, Len(s) - 1))
    ELSE s

Strip(s) == RStrip(LStrip(s))

\* text.upper().replace(' ', '').replace('-', '')
Normalize(text) == Filter(Upper(text), Alphabet \ {" ", "-"})

\* ''.join(c for c in text if c.isalnum())
AlnumOnly(text) == Filter(text, Letters \cup Lower \cup Digits)

\* word in text (substring test)
Contains(text, word) ==
    \E i \in 1..(Len(text) - Len(word) + 1) :
        SubSeq(text, i, i + Len(word) - 1) = word

StartsWith(text, word) ==
    Len(text) >= Len(word) /\ SubSeq(text, 1, Len(word)) = word

\* ----------------------------------------------------------------- regex

\* One counted character class of a pattern: cls{lo,hi}.
Seg(cls, lo, hi) == [cls |-> cls, lo |-> lo, hi |-> hi]

\* "$": the end of the text, or just before a final newline.
AtEnd(s, i) == i = Len(s) + 1 \/ (i = Len(s) /\ s[i] = "\n")

\* re.match of the anchored pattern pat[k..] against s[i..]
RECURSIVE MatchFrom(_, _, _, _)
MatchFrom(pat, k, s, i) ==
    IF k > Len(pat) THEN AtEnd(s, i)
    ELSE \E n \in pat[k].lo..pat[k].hi :
            /\ i + n - 1 <= Len(s)
            /\ \A j \in i..(i + n - 1) : s[j] \in pat[k].cls
            /\ MatchFrom(pat, k + 1, s, i + n)

ReMatch(pat, s) == MatchFrom(pat, 1, s, 1)

\* ------------------------------------------------------- plate validation

\* The four patterns of is_indian_plate (\s: whitespace).
PlatePatterns ==
    { <<Seg(Letters, 2, 2), Seg(Digits, 2, 2), Seg(Letters, 1, 3), Seg(Digits, 1, 4)>>,
      <<Seg(Letters, 2, 2), Seg(Digits, 2, 2), Seg(Letters, 2, 2), Seg(Digits, 4, 4)>>,
      <<Seg(Letters, 2, 2), Seg(Whitespace, 0, 1), Seg(Digits, 2, 2), Seg(Whitespace, 0, 1),
        Seg(Letters, 1, 3), Seg(Whitespace, 0, 1), Seg(Digits, 1, 4)>>,
      <<Seg(Letters, 2, 2), Seg(Digits, 1, 2), Seg(Letters, 1, 3), Seg(Digits, 1, 4)>> }

\* state_codes of is_indian_plate
ValidatorStateCodes ==
    { <<"M", "H">>, <<"D", "L">>, <<"K", "A">>, <<"T", "N">>, <<"A", "P">>, <<"T", "S">>,
      <<"U", "P">>, <<"R", "J">>, <<"G", "J">>, <<"M", "P">>, <<"W", "B">>, <<"P", "B">>,
      <<"H", "R">>, <<"U", "K">>, <<"J", "H">>, <<"B", "R">>, <<"O", "R">>, <<"C", "G">>,
      <<"A", "S">>, <<"K", "L">>, <<"G", "A">>, <<"H", "P">> }

\* Mutant of is_indian_plate: the patterns alone, without the state-code rule.
is_indian_plate_strict(text) ==
    LET cleaned == Normalize(text)
    IN  \E pat \in PlatePatterns : ReMatch(pat, cleaned)

is_indian_plate(text) ==
    LET cleaned == Normalize(text)
    IN  \/ \E pat \in PlatePatterns : ReMatch(pat, cleaned)
        \/ /\ Len(cleaned) >= 6
           /\ SubSeq(cleaned, 1, 2) \in ValidatorStateCodes
           /\ \E i \in DOMAIN cleaned : isdigit(cleaned[i])

\* state_codes of score_plate_candidate
ScorerStateCodes ==
    { <<"M", "H">>, <<"D", "L">>, <<"K", "A">>, <<"T", "N">>, <<"A", "P">>, <<"T", "S">>,
      <<"U", "P">>, <<"R", "J">>, <<"G", "J">>, <<"M", "P">>, <<"W", "B">>, <<"P", "B">>,
      <<"H", "R">> }

\* bad_words of score_plate_candidate
bad_words ==
    { <<"P", "H", "O", "N", "E">>, <<"C", "E", "L", "L">>,
      <<"B", "A", "T", "T", "E", "R", "Y">>, <<"W", "I", "F", "I">>,
      <<"S", "U", "Z", "U", "K", "I">>, <<"M", "A", "R", "U", "T", "I">>,
      <<"H", "O", "N", "D", "A">>, <<"T", "O", "Y", "O", "T", "A">>,
      <<"D", "I", "E", "S", "E", "L">>, <<"P", "E", "T", "R", "O", "L">>,
      <<"I", "N", "D", "I", "A">>, <<"C", "A", "R">>, <<"T", "R", "U", "C", "K">>,
      <<"B", "U", "S">>, <<"P", "E", "R", "S", "O", "N">>,
      <<"V", "E", "H", "I", "C", "L", "E">>, <<"R", "E", "A", "D", "I", "N", "G">>,
      <<"P", "L", "A", "T", "E">> }

\* The vehicle-class words of the track-id pattern ^(CAR|TRUCK|BUS|VEHICLE)\d+$
TrackIdWords ==
    { <<"C", "A", "R">>, <<"T", "R", "U", "C", "K">>, <<"B", "U", "S">>,
      <<"V", "E", "H", "I", "C", "L", "E">> }

LooksLikeTrackId(cleaned) ==
    \E w \in TrackIdWords :
        /\ StartsWith(cleaned, w)
        /\ \E n \in 1..Len(cleaned) :
              /\ Len(w) + n <= Len(cleaned)
              /\ \A j \in (Len(w) + 1)..(Len(w) + n) : isdigit(cleaned[j])
              /\ AtEnd(cleaned, Len(w) + n + 1)

\* Mutant of score_plate_candidate: only a text under 4 characters is too short.
score_plate_candidate_short4(text) ==
    LET cleaned == Normalize(text)
        n == Len(cleaned)
        lengthBonus == IF 9 <= n /\ n <= 11 THEN 30
                       ELSE IF 6 <= n /\ n <= 12 THEN 15 ELSE 0
        has_letters == \E i \in DOMAIN cleaned : isalpha(cleaned[i])
        has_numbers == \E i \in DOMAIN cleaned : isdigit(cleaned[i])
        mixBonus == IF has_letters /\ has_numbers THEN 30 ELSE 0
        patternBonus == IF is_indian_plate(cleaned) THEN 50 ELSE 0
        stateBonus == IF n >= 2 /\ SubSeq(cleaned, 1, 2) \in ScorerStateCodes THEN 40 ELSE 0
        badPenalty == 100 * Cardinality({w \in bad_words : Contains(cleaned, w)})
        trackPenalty == IF LooksLikeTrackId(cleaned) THEN 100 ELSE 0
    IN  IF n < 4 THEN -50
        ELSE lengthBonus + mixBonus + patternBonus + stateBonus - badPenalty - trackPenalty

\* Mutant of score_plate_candidate: a blocklisted word costs 50.
score_plate_candidate_penalty50(text) ==
    LET cleaned == Normalize(text)
        n == Len(cleaned)
        lengthBonus == IF 9 <= n /\ n <= 11 THEN 30
                       ELSE IF 6 <= n /\ n <= 12 THEN 15 ELSE 0
        has_letters == \E i \in DOMAIN cleaned : isalpha(cleaned[i])
        has_numbers == \E i \in DOMAIN cleaned : isdigit(cleaned[i])
        mixBonus == IF has_letters /\ has_numbers THEN 30 ELSE 0
        patternBonus == IF is_indian_plate(cleaned) THEN 50 ELSE 0
        stateBonus == IF n >= 2 /\ SubSeq(cleaned, 1, 2) \in ScorerStateCodes THEN 40 ELSE 0
        badPenalty == 50 * Cardinality({w \in bad_words : Contains(cleaned, w)})
        trackPenalty == IF LooksLikeTrackId(cleaned) THEN 100 ELSE 0
    IN  IF n < 6 THEN -50
        ELSE lengthBonus + mixBonus + patternBonus + stateBonus - badPenalty - trackPenalty

\* Mutant of score_plate_candidate: a blocklisted word counts at the start only.
score_plate_candidate_prefix_words(text) ==
    LET cleaned == Normalize(text)
        n == Len(cleaned)
        lengthBonus == IF 9 <= n /\ n <= 11 THEN 30
                       ELSE IF 6 <= n /\ n <= 12 THEN 15 ELSE 0
        has_letters == \E i \in DOMAIN cleaned : isalpha(cleaned[i])
        has_numbers == \E i \in DOMAIN cleaned : isdigit(cleaned[i])
        mixBonus == IF has_letters /\ has_numbers THEN 30 ELSE 0
        patternBonus == IF is_indian_plate(cleaned) THEN 50 ELSE 0
        stateBonus == IF n >= 2 /\ SubSeq(cleaned, 1, 2) \in ScorerStateCodes THEN 40 ELSE 0
        badPenalty == 100 * Cardinality({w \in bad_words : StartsWith(cleaned, w)})
        trackPenalty == IF LooksLikeTrackId(cleaned) THEN 100 ELSE 0
    IN  IF n < 6 THEN -50
        ELSE lengthBonus + mixBonus + patternBonus + stateBonus - badPenalty - trackPenalty

score_plate_candidate(text) ==
    LET cleaned == Normalize(text)
        n == Len(cleaned)
        lengthBonus == IF 9 <= n /\ n <= 11 THEN 30
                       ELSE IF 6 <= n /\ n <= 12 THEN 15 ELSE 0
        has_letters == \E i \in DOMAIN cleaned : isalpha(cleaned[i])
        has_numbers == \E i \in DOMAIN cleaned : isdigit(cleaned[i])
        mixBonus == IF has_letters /\ has_numbers THEN 30 ELSE 0
        patternBonus == IF is_indian_plate(cleaned) THEN 50 ELSE 0
        stateBonus == IF n >= 2 /\ SubSeq(cleaned, 1, 2) \in ScorerStateCodes THEN 40 ELSE 0
        badPenalty == 100 * Cardinality({w \in bad_words : Contains(cleaned, w)})
        trackPenalty == IF LooksLikeTrackId(cleaned) THEN 100 ELSE 0
    IN  IF n < 6 THEN -50
        ELSE lengthBonus + mixBonus + patternBonus + stateBonus - badPenalty - trackPenalty

\* -------------------------------------------------------- temporal voting

TEMPORAL_WINDOW == 10

\* _temporal_votes.get(track_id, []): the votes of a track, [] without a buffer
Votes(tv, track_id) == IF track_id \in DOMAIN tv THEN tv[track_id] ELSE <<>>

\* s[-n:]
LastN(s, n) == IF Len(s) <= n THEN s ELSE SubSeq(s, Len(s) - n + 1, Len(s))

\* _temporal_votes[track_id].append(plate_text): the defaultdict creates the list
AppendVote(tv, track_id, plate_text) ==
    [k \in DOMAIN tv \cup {track_id} |->
        IF k = track_id THEN Append(Votes(tv, track_id), plate_text) ELSE tv[k]]

\* Mutant of TrimVotes: the slice keeps one entry more than the window.
TrimVotesOneMore(tv, track_id) ==
    [k \in DOMAIN tv \cup {track_id} |->
        IF k = track_id
        THEN (IF Len(Votes(tv, track_id)) > TEMPORAL_WINDOW + 1
              THEN LastN(Votes(tv, track_id), TEMPORAL_WINDOW + 1)
              ELSE Votes(tv, track_id))
        ELSE tv[k]]

\* Mutant of TrimVotes: the slice keeps the first TEMPORAL_WINDOW entries.
TrimVotesKeepOldest(tv, track_id) ==
    [k \in DOMAIN tv \cup {track_id} |->
        IF k = track_id
        THEN (IF Len(Votes(tv, track_id)) > TEMPORAL_WINDOW
              THEN SubSeq(Votes(tv, track_id), 1, TEMPORAL_WINDOW)
              ELSE Votes(tv, track_id))
        ELSE tv[k]]

\* if len(_temporal_votes[track_id]) > TEMPORAL_WINDOW: keep the last TEMPORAL_WINDOW
TrimVotes(tv, track_id) ==
    [k \in DOMAIN tv \cup {track_id} |->
        IF k = track_id
        THEN (IF Len(Votes(tv, track_id)) > TEMPORAL_WINDOW
              THEN LastN(Votes(tv, track_id), TEMPORAL_WINDOW)
              ELSE Votes(tv, track_id))
        ELSE tv[k]]

add_temporal_vote(tv, track_id, plate_text) ==
    IF Truthy(plate_text) THEN TrimVotes(AppendVote(tv, track_id, plate_text), track_id)
    ELSE tv

\* Counter(votes): <<key, count>> items in the order the keys were first seen
RECURSIVE CounterOf(_, _)
CounterOf(votes, items) ==
    IF votes = <<>> THEN items
    ELSE LET v == Head(votes)
             seen == {i \in DOMAIN items : items[i][1] = v}
         IN  CounterOf(Tail(votes),
                       IF seen = {} THEN Append(items, <<v, 1>>)
                       ELSE [i \in DOMAIN items |->
                               IF i \in seen THEN <<v, items[i][2] + 1>> ELSE items[i]])

\* Mutant of MaxItem: a later item of equal count replaces the best one.
RECURSIVE MaxItemLatest(_, _)
MaxItemLatest(items, best) ==
    IF items = <<>> THEN best
    ELSE MaxItemLatest(Tail(items), IF Head(items)[2] >= best[2] THEN Head(items) ELSE best)

\* max(items, key=count): the first item among those of the greatest count
RECURSIVE MaxItem(_, _)
MaxItem(items, best) ==
    IF items = <<>> THEN best
    ELSE MaxItem(Tail(items), IF Head(items)[2] > best[2] THEN Head(items) ELSE best)

\* counts.most_common(1)[0] of a non-empty list of votes
most_common(votes) ==
    LET items == CounterOf(votes, <<>>) IN MaxItem(Tail(items), Head(items))

\* Mutant of get_consensus_plate: the votes are divided by the window capacity.
get_consensus_plate_by_window(tv, track_id) ==
    LET votes == Votes(tv, track_id)
    IN  IF votes = <<>> THEN [plate |-> None, vote_count |-> 0, total |-> 1]
        ELSE [plate |-> most_common(votes)[1],
              vote_count |-> most_common(votes)[2],
              total |-> TEMPORAL_WINDOW]

\* The pair (plate_text, confidence): confidence is (vote_count / total) * 100,
\* kept as the two integers it is computed from; (None, 0) is 0 votes of 1.
get_consensus_plate(tv, track_id) ==
    LET votes == Votes(tv, track_id)
    IN  IF votes = <<>> THEN [plate |-> None, vote_count |-> 0, total |-> 1]
        ELSE [plate |-> most_common(votes)[1],
              vote_count |-> most_common(votes)[2],
              total |-> Len(votes)]

clear_temporal_votes(tv, track_id) ==
    IF TruthyId(track_id) THEN [k \in DOMAIN tv \ {track_id} |-> tv[k]]
    ELSE [k \in {} |-> <<>>]

\* ------------------------------------------------------------------ state

VARIABLES
    temporal_votes,  \* _temporal_votes: track id -> list of recent plate readings
    recorded,        \* history: per key, the non-empty plates add_temporal_vote
                     \* recorded since the key's buffer was last removed
    last,            \* the last direct call of a function: its name, its
                     \* arguments and the value it returned
    pc,              \* per task: where its request handler stands
    req,             \* per task: the locals of its request handler
    nreq,            \* number of requests accepted so far
    active_connections,  \* manager.active_connections: the list of open websockets
    ws               \* the broadcast coroutine (its position and locals) and
                     \* the history of the websockets

vars == <<temporal_votes, recorded, last, pc, req, nreq, active_connections, ws>>

\* No broadcast has been called and no websocket has connected.
NoBroadcast ==
    [pc |-> "idle", caller |-> "none", index |-> 0, connection |-> "none", dead_connections |-> <<>>,
     start |-> <<>>, sent |-> <<>>, removed |-> {}, undisturbed |-> TRUE,
     opened |-> {}, closed |-> {}, count |-> 0]

\* Plates the engines can read.
P1 == <<"M", "H", "1", "2", "A", "B", "4", "5", "6", "7">>
P2 == <<"D", "L", "9", "C", "A", "B", "1", "2", "3", "4">>
P3 == <<"K", "A", "0", "1", "M", "H", "2", "3", "4", "5">>

\* Track ids a client sends, and the keys the vote map can get.
TrackIds == {"manual-scan", "car-1", ""}
AllKeys == TrackIds \cup {"file-upload"}

\* Bound on the total number of recorded votes in the vote-level specification.
MaxRecorded == 11

RECURSIVE SumLen(_, _)
SumLen(f, keys) ==
    IF keys = {} THEN 0
    ELSE LET k == CHOOSE x \in keys : TRUE IN Len(f[k]) + SumLen(f, keys \ {k})

NoBuffers == [k \in {} |-> <<>>]

NoResult == [op |-> "none", track |-> NoTrackId, plate |-> None, vote_count |-> 0, total |-> 1]

\* recorded after tv became tv2: the history of a removed buffer starts again
HistoryAfter(hist, tv2) == [k \in AllKeys |-> IF k \in DOMAIN tv2 THEN hist[k] ELSE <<>>]

\* recorded after add_temporal_vote(track_id, plate_text)
HistoryAdd(hist, track_id, plate_text) ==
    IF Truthy(plate_text) THEN [hist EXCEPT ![track_id] = Append(@, plate_text)] ELSE hist

\* ------------------------------------- the vote functions called directly

VoteKeys == {"car-1", ""}
VoteArgs == {P1, P2, <<>>, None}
Tasks == {"t1", "t2"}

\* A new request is run by the first task that is free.
FreeTask(s) == pc[s] = "idle" /\ (s = "t2" => pc["t1"] # "idle")

IdleReq ==
    [handler |-> "none", image |-> "none", track_id |-> NoTrackId, use_temporal |-> FALSE,
     calls |-> <<>>,
     ocr_plate |-> None, ocr_conf |-> 0,
     plate |-> None, confidence |-> 0, engine_used |-> "none",
     before |-> <<>>, consensus_plate |-> None, consensus_votes |-> 0,
     consensus_total |-> 1, final_plate |-> None, final_conf |-> 0,
     success |-> FALSE, status |-> 0]

InitCommon ==
    /\ last = NoResult
    /\ pc = [s \in Tasks |-> "idle"]
    /\ req = [s \in Tasks |-> IdleReq]
    /\ nreq = 0
    /\ active_connections = <<>>
    /\ ws = NoBroadcast

InitVotes ==
    /\ temporal_votes = NoBuffers
    /\ recorded = [k \in AllKeys |-> <<>>]
    /\ InitCommon

AddTemporalVote(track_id, plate_text) ==
    /\ SumLen(recorded, AllKeys) < MaxRecorded
    /\ temporal_votes' = add_temporal_vote(temporal_votes, track_id, plate_text)
    /\ recorded' = HistoryAdd(recorded, track_id, plate_text)
    /\ last' = NoResult
    /\ UNCHANGED <<pc, req, nreq, active_connections, ws>>

ClearTemporalVotes(track_id) ==
    /\ temporal_votes' = clear_temporal_votes(temporal_votes, track_id)
    /\ recorded' = HistoryAfter(recorded, temporal_votes')
    /\ last' = [NoResult EXCEPT !.op = "clear_temporal_votes", !.track = track_id]
    /\ UNCHANGED <<pc, req, nreq, active_connections, ws>>

GetConsensusPlate(track_id) ==
    /\ last' = [op |-> "get_consensus_plate", track |-> track_id,
                plate |-> get_consensus_plate(temporal_votes, track_id).plate,
                vote_count |-> get_consensus_plate(temporal_votes, track_id).vote_count,
                total |-> get_consensus_plate(temporal_votes, track_id).total]
    /\ UNCHANGED <<temporal_votes, recorded, pc, req, nreq, active_connections, ws>>

NextVotes ==
    \/ \E t \in VoteKeys, p \in VoteArgs : AddTemporalVote(t, p)
    \/ \E t \in VoteKeys \cup {NoTrackId} : ClearTemporalVotes(t)
    \/ \E t \in VoteKeys : GetConsensusPlate(t)

SpecVotes == InitVotes /\ [][NextVotes]_vars

\* -------------------------------------------------- the two-stage pipeline

\* A fragment of reader.readtext is <<text, conf>>, conf in hundredths.
\* int(conf * 100) in binary floating point: 0.29, 0.57 and 0.58 come out one low.
IntPct(conf) == IF conf \in {29, 57, 58} THEN conf - 1 ELSE conf

\* The loop over the fragments (best_plate, best_score, best_conf), scores in
\* hundredths: score_plate_candidate(cleaned) + conf * 30.
RECURSIVE BestCandidate(_, _)
BestCandidate(results, best) ==
    IF results = <<>> THEN best
    ELSE LET cleaned == AlnumOnly(Upper(Head(results)[1]))
             conf == Head(results)[2]
             score == 100 * score_plate_candidate(cleaned) + 30 * conf
         IN  BestCandidate(Tail(results),
                 IF Len(cleaned) >= 4 /\ score > best.score
                 THEN [plate |-> cleaned, score |-> score, conf |-> conf]
                 ELSE best)

\* Mutant of ScoreFragments: the best fragment is the plate whatever its score.
ScoreFragmentsAnyScore(results) ==
    LET best == BestCandidate(results, [plate |-> None, score |-> -10000, conf |-> 0])
        valid_plate == best.plate
    IN  [plate |-> valid_plate,
         confidence |-> IF Truthy(valid_plate) THEN IntPct(best.conf) ELSE 0]

\* What run_two_stage_ocr returns for a non-empty list of fragments:
\* valid_plate and int(best_conf * 100).
ScoreFragments(results) ==
    LET best == BestCandidate(results, [plate |-> None, score |-> -10000, conf |-> 0])
        valid_plate == IF best.score > 0 THEN best.plate ELSE None
    IN  [plate |-> valid_plate,
         confidence |-> IF Truthy(valid_plate) THEN IntPct(best.conf) ELSE 0]

\* --------------------------------------------------------------- handlers

\* Bound on the number of requests the server accepts in one run.
MaxRequests == 2

NONE == <<"N", "O", "N", "E">>

\* What the primary engine can answer (response.text).
GeminiTexts ==
    { P1, P2, P3,
      <<" ", "m", "h", "1", "2", " ", "a", "b", "-", "4", "5", "6", "7", "\n">>,
      NONE, <<>>, <<"M", "H", "1", "2">>, <<"T", "R", "U", "C", "K", "1", "2">> }

\* What one reader.readtext call can return.
OcrResults ==
    { <<>>,
      << <<P1, 88>> >>,
      << <<P3, 29>> >>,
      << <<<<"C", "A", "R", "8", "9">>, 99>> >>,
      << <<<<"A", "B", "1">>, 99>> >>,
      << <<<<"T", "R", "U", "C", "K", "1", "2">>, 90>>,
         <<<<"m", "h", "-", "1", "2", " ", "a", "b", "4", "5", "6", "7">>, 50>> >> }

\* Vote maps the server can have reached when the run starts: no buffer, two
\* different votes, and a full window.
FullWindow == <<P1, P1, P1, P1, P1, P1, P1, P1, P1, P2>>
InitialVotes ==
    { NoBuffers,
      [k \in {"car-1"} |-> <<P1, P2>>],
      [k \in {"car-1"} |-> FullWindow] }

Init ==
    /\ temporal_votes \in InitialVotes
    /\ recorded = [k \in AllKeys |-> Votes(temporal_votes, k)]
    /\ InitCommon

\* Mutant of LoopFree: handlers run on threads, a request starts at any time.
LoopFreeAlways == TRUE

\* The handlers are coroutines without an await: one that has started runs to its
\* end before the event loop starts another.
LoopFree == \A s \in Tasks : pc[s] = "idle"

\* Mutant of GeminiAccepts: the answer is not scored.
GeminiAcceptsUnscored(cleaned) ==
    /\ cleaned # <<>>
    /\ cleaned # NONE
    /\ Len(cleaned) >= 6

\* cleaned and cleaned != "NONE" and len(cleaned) >= 6 and score_plate_candidate(cleaned) > 0
GeminiAccepts(cleaned) ==
    /\ cleaned # <<>>
    /\ cleaned # NONE
    /\ Len(cleaned) >= 6
    /\ score_plate_candidate(cleaned) > 0

\* POST /ocr/plate-base64 up to the first engine call: the body is read and the
\* image decoded; an HTTPException(400) raised inside the try is caught by the
\* handler's own except Exception and raised again as HTTPException(500).
BeginPlateBase64(s, image, track_id, use_temporal, api_key) ==
    /\ LoopFree
    /\ FreeTask(s)
    /\ nreq < MaxRequests
    /\ nreq' = nreq + 1
    /\ LET r == [IdleReq EXCEPT !.handler = "plate-base64", !.image = image,
                                !.track_id = track_id, !.use_temporal = use_temporal,
                                !.before = Votes(temporal_votes, track_id)]
       IN  IF image # "ok"
           THEN /\ req' = [req EXCEPT ![s] = [r EXCEPT !.status = 500]]
                /\ pc' = [pc EXCEPT ![s] = "done"]
           ELSE /\ req' = [req EXCEPT ![s] = r]
                /\ pc' = [pc EXCEPT ![s] = IF api_key THEN "gemini" ELSE "ocr_region"]
    /\ UNCHANGED <<temporal_votes, recorded, last, active_connections, ws>>

\* model.generate_content returns (or raises) and the answer is validated.
GeminiReturn(s, raises, text) ==
    /\ pc[s] = "gemini"
    /\ LET cleaned == AlnumOnly(Upper(Strip(text)))
           accepted == ~raises /\ GeminiAccepts(cleaned)
           outcome == IF raises THEN "raised" ELSE IF accepted THEN "accepted" ELSE "rejected"
           r == [req[s] EXCEPT !.calls = Append(@, <<"gemini", outcome>>)]
       IN  IF accepted
           THEN /\ req' = [req EXCEPT ![s] = [r EXCEPT !.plate = cleaned, !.confidence = 95,
                                                       !.engine_used = "Gemini Vision"]]
                /\ pc' = [pc EXCEPT ![s] = "vote"]
           ELSE /\ req' = [req EXCEPT ![s] = r]
                /\ pc' = [pc EXCEPT ![s] = "ocr_region"]
    /\ UNCHANGED <<temporal_votes, recorded, last, nreq, active_connections, ws>>

\* run_two_stage_ocr returns to its caller: /plate-base64 takes plate and
\* confidence from the result and goes on to vote, /plate answers.
LeaveOcr(s, r) ==
    IF r.handler = "plate-base64"
    THEN /\ req' = [req EXCEPT ![s] = [r EXCEPT !.plate = r.ocr_plate,
                                                !.confidence = r.ocr_conf,
                                                !.engine_used = "EasyOCR"]]
         /\ pc' = [pc EXCEPT ![s] = "vote"]
    ELSE /\ req' = [req EXCEPT ![s] = [r EXCEPT !.final_plate = r.ocr_plate,
                                                !.final_conf = r.ocr_conf,
                                                !.success = (r.ocr_plate # None),
                                                !.status = 200]]
         /\ pc' = [pc EXCEPT ![s] = "done"]

\* Mutant of AfterReadtext: the full image is read whenever the plate region gave
\* no acceptable plate, fragments or not.
AfterReadtextRetry(s, call, raises, results) ==
    LET outcome == IF raises THEN "raised"
                   ELSE IF results = <<>> THEN "empty" ELSE "fragments"
        r == [req[s] EXCEPT !.calls = Append(@, <<call, outcome>>)]
    IN  IF raises
        THEN LeaveOcr(s, r)
        ELSE IF results = <<>> \/ (call = "ocr_region" /\ ScoreFragments(results).plate = None)
        THEN IF call = "ocr_region"
             THEN /\ req' = [req EXCEPT ![s] = r]
                  /\ pc' = [pc EXCEPT ![s] = "ocr_full"]
             ELSE LeaveOcr(s, r)
        ELSE /\ req' = [req EXCEPT ![s] = [r EXCEPT !.ocr_plate = ScoreFragments(results).plate,
                                                    !.ocr_conf = ScoreFragments(results).confidence]]
             /\ pc' = [pc EXCEPT ![s] = "ocr_vote"]

\* Mutant of AfterReadtext: an exception of the reader leaves run_two_stage_ocr
\* and reaches the handler's except, which answers 500.
AfterReadtextPropagates(s, call, raises, results) ==
    LET outcome == IF raises THEN "raised"
                   ELSE IF results = <<>> THEN "empty" ELSE "fragments"
        r == [req[s] EXCEPT !.calls = Append(@, <<call, outcome>>)]
    IN  IF raises
        THEN /\ req' = [req EXCEPT ![s] = [r EXCEPT !.status = 500]]
             /\ pc' = [pc EXCEPT ![s] = "done"]
        ELSE IF results = <<>>
        THEN IF call = "ocr_region"
             THEN /\ req' = [req EXCEPT ![s] = r]
                  /\ pc' = [pc EXCEPT ![s] = "ocr_full"]
             ELSE LeaveOcr(s, r)
        ELSE /\ req' = [req EXCEPT ![s] = [r EXCEPT !.ocr_plate = ScoreFragments(results).plate,
                                                    !.ocr_conf = ScoreFragments(results).confidence]]
             /\ pc' = [pc EXCEPT ![s] = "ocr_vote"]

\* What a readtext call leads to: an exception ends run_two_stage_ocr with plate
\* None; no fragments lead to the next image (or to plate None after the full
\* image); fragments are scored.
AfterReadtext(s, call, raises, results) ==
    LET outcome == IF raises THEN "raised"
                   ELSE IF results = <<>> THEN "empty" ELSE "fragments"
        r == [req[s] EXCEPT !.calls = Append(@, <<call, outcome>>)]
    IN  IF raises
        THEN LeaveOcr(s, r)
        ELSE IF results = <<>>
        THEN IF call = "ocr_region"
             THEN /\ req' = [req EXCEPT ![s] = r]
                  /\ pc' = [pc EXCEPT ![s] = "ocr_full"]
             ELSE LeaveOcr(s, r)
        ELSE /\ req' = [req EXCEPT ![s] = [r EXCEPT !.ocr_plate = ScoreFragments(results).plate,
                                                    !.ocr_conf = ScoreFragments(results).confidence]]
             /\ pc' = [pc EXCEPT ![s] = "ocr_vote"]

\* get_ocr_reader() and reader.readtext(plate_crop) return or raise.
OcrRegionReturn(s, raises, results) ==
    /\ pc[s] = "ocr_region"
    /\ AfterReadtext(s, "ocr_region", raises, results)
    /\ UNCHANGED <<temporal_votes, recorded, last, nreq, active_connections, ws>>

\* reader.readtext(img_array) returns or raises.
OcrFullReturn(s, raises, results) ==
    /\ pc[s] = "ocr_full"
    /\ AfterReadtext(s, "ocr_full", raises, results)
    /\ UNCHANGED <<temporal_votes, recorded, last, nreq, active_connections, ws>>

\* Mutant of ShouldVoteOcr: the pipeline forgets the manual-scan exemption.
ShouldVoteOcrAnyId(r) == Truthy(r.ocr_plate)

\* run_two_stage_ocr: if valid_plate and track_id != "manual-scan"
ShouldVoteOcr(r) == Truthy(r.ocr_plate) /\ r.track_id # "manual-scan"

\* /plate-base64: if plate and track_id != "manual-scan"
ShouldVote(r) == Truthy(r.plate) /\ r.track_id # "manual-scan"

\* run_two_stage_ocr: the append of add_temporal_vote, when the plate is to be
\* recorded.
OcrVote(s) ==
    /\ pc[s] = "ocr_vote"
    /\ IF ShouldVoteOcr(req[s])
       THEN /\ temporal_votes' = AppendVote(temporal_votes, req[s].track_id, req[s].ocr_plate)
            /\ recorded' = HistoryAdd(recorded, req[s].track_id, req[s].ocr_plate)
            /\ pc' = [pc EXCEPT ![s] = "ocr_trim"]
            /\ UNCHANGED req
       ELSE /\ LeaveOcr(s, req[s])
            /\ UNCHANGED <<temporal_votes, recorded>>
    /\ UNCHANGED <<last, nreq, active_connections, ws>>

\* run_two_stage_ocr: the trim of add_temporal_vote, then the return.
OcrTrim(s) ==
    /\ pc[s] = "ocr_trim"
    /\ temporal_votes' = TrimVotes(temporal_votes, req[s].track_id)
    /\ LeaveOcr(s, req[s])
    /\ UNCHANGED <<recorded, last, nreq, active_connections, ws>>

\* /plate-base64: the append of add_temporal_vote, when the plate is to be
\* recorded.
Vote(s) ==
    /\ pc[s] = "vote"
    /\ IF ShouldVote(req[s])
       THEN /\ temporal_votes' = AppendVote(temporal_votes, req[s].track_id, req[s].plate)
            /\ recorded' = HistoryAdd(recorded, req[s].track_id, req[s].plate)
            /\ pc' = [pc EXCEPT ![s] = "trim"]
       ELSE /\ pc' = [pc EXCEPT ![s] = "consensus"]
            /\ UNCHANGED <<temporal_votes, recorded>>
    /\ UNCHANGED <<req, last, nreq, active_connections, ws>>

\* /plate-base64: the trim of add_temporal_vote.
Trim(s) ==
    /\ pc[s] = "trim"
    /\ temporal_votes' = TrimVotes(temporal_votes, req[s].track_id)
    /\ pc' = [pc EXCEPT ![s] = "consensus"]
    /\ UNCHANGED <<recorded, req, last, nreq, active_connections, ws>>

\* Mutant of UsesConsensus: the useTemporal flag is not looked at.
UsesConsensusAlways(r) == r.track_id # "manual-scan"

\* if use_temporal and track_id != "manual-scan"
UsesConsensus(r) == r.use_temporal /\ r.track_id # "manual-scan"

\* Mutant of FinalPlate: the consensus needs more than half of the votes.
FinalPlateStrict(consensus, plate) ==
    IF 100 * consensus.vote_count > 50 * consensus.total THEN consensus.plate ELSE plate

\* Mutant of FinalPlate: the answer is the plate of the current frame alone.
FinalPlateInstantOnly(consensus, plate) == plate

\* final_plate = consensus_plate if consensus_conf >= 50 else plate
FinalPlate(consensus, plate) ==
    IF 100 * consensus.vote_count >= 50 * consensus.total THEN consensus.plate ELSE plate

\* final_conf = int(consensus_conf) if consensus_plate else confidence
FinalConf(consensus, confidence) ==
    IF Truthy(consensus.plate) THEN (100 * consensus.vote_count) \div consensus.total
    ELSE confidence

\* /plate-base64: the consensus is read, the final plate chosen, the body built.
Consensus(s) ==
    /\ pc[s] = "consensus"
    /\ LET r == req[s]
           consensus == IF UsesConsensus(r) THEN get_consensus_plate(temporal_votes, r.track_id)
                        ELSE [plate |-> None, vote_count |-> 0, total |-> 1]
       IN  req' = [req EXCEPT ![s] =
                      [r EXCEPT !.consensus_plate = consensus.plate,
                                !.consensus_votes = consensus.vote_count,
                                !.consensus_total = consensus.total,
                                !.final_plate = FinalPlate(consensus, r.plate),
                                !.final_conf = FinalConf(consensus, r.confidence),
                                !.success = (FinalPlate(consensus, r.plate) # None),
                                !.status = 200]]
    /\ pc' = [pc EXCEPT ![s] = "done"]
    /\ UNCHANGED <<temporal_votes, recorded, last, nreq, active_connections, ws>>

\* The response has been sent; the task ends.
Close(s) ==
    /\ pc[s] = "done"
    /\ pc' = [pc EXCEPT ![s] = "idle"]
    /\ req' = [req EXCEPT ![s] = IdleReq]
    /\ UNCHANGED <<temporal_votes, recorded, last, nreq, active_connections, ws>>

\* POST /ocr/plate: the upload is checked and decoded, then run_two_stage_ocr runs
\* under the track id "file-upload"; a rejected upload ends as a 500 like above.
BeginPlate(s, is_image) ==
    /\ LoopFree
    /\ FreeTask(s)
    /\ nreq < MaxRequests
    /\ nreq' = nreq + 1
    /\ LET r == [IdleReq EXCEPT !.handler = "plate", !.track_id = "file-upload",
                                !.image = IF is_image THEN "ok" ELSE "not-image",
                                !.before = Votes(temporal_votes, "file-upload")]
       IN  IF is_image
           THEN /\ req' = [req EXCEPT ![s] = r]
                /\ pc' = [pc EXCEPT ![s] = "ocr_region"]
           ELSE /\ req' = [req EXCEPT ![s] = [r EXCEPT !.status = 500]]
                /\ pc' = [pc EXCEPT ![s] = "done"]
    /\ UNCHANGED <<temporal_votes, recorded, last, active_connections, ws>>

\* POST /ocr/clear-temporal with the trackId of its body (or none).
ClearTemporal(track_id) ==
    /\ LoopFree
    /\ nreq < MaxRequests
    /\ nreq' = nreq + 1
    /\ temporal_votes' = clear_temporal_votes(temporal_votes, track_id)
    /\ recorded' = HistoryAfter(recorded, temporal_votes')
    /\ UNCHANGED <<last, pc, req, active_connections, ws>>

Next ==
    \/ \E s \in Tasks, image \in {"ok", "missing", "undecodable"}, t \in TrackIds,
          u \in BOOLEAN, key \in BOOLEAN : BeginPlateBase64(s, image, t, u, key)
    \/ \E s \in Tasks, raises \in BOOLEAN, text \in GeminiTexts : GeminiReturn(s, raises, text)
    \/ \E s \in Tasks, raises \in BOOLEAN, fr \in OcrResults : OcrRegionReturn(s, raises, fr)
    \/ \E s \in Tasks, raises \in BOOLEAN, fr \in OcrResults : OcrFullReturn(s, raises, fr)
    \/ \E s \in Tasks : OcrVote(s)
    \/ \E s \in Tasks : OcrTrim(s)
    \/ \E s \in Tasks : Vote(s)
    \/ \E s \in Tasks : Trim(s)
    \/ \E s \in Tasks : Consensus(s)
    \/ \E s \in Tasks : Close(s)
    \/ \E s \in Tasks, is_image \in BOOLEAN : BeginPlate(s, is_image)
    \/ \E t \in TrackIds \cup {NoTrackId} : ClearTemporal(t)

Spec == Init /\ [][Next]_vars

\* ------------------------- the validator and the scorer called directly

\* Bound on the length of the texts that are enumerated in full.
MaxTextLen == 6

\* Bound on the number of digits written after a word.
MaxDigits == 3

\* Every text of at most MaxTextLen characters over a state code's letters (one
\* in lower case), a digit and a hyphen.
TextChars == {"M", "h", "1", "-"}
ShortTexts == UNION {[1..n -> TextChars] : n \in 0..MaxTextLen}

DigitRuns == UNION {[1..n -> {"1", "2", "3"}] : n \in 1..MaxDigits}

\* Texts of the plate grammar, with listed and unlisted state codes, and texts
\* that are near it.
PlateTexts ==
    { st \o d \o a \o n :
        st \in {<<"M", "H">>, <<"K", "A">>, <<"T", "N">>, <<"U", "K">>, <<"X", "Y">>},
        d \in {<<"1", "2">>, <<"0", "1">>},
        a \in {<<"A">>, <<"A", "B">>, <<"M", "H">>, <<"A", "B", "C">>},
        n \in {<<"1">>, <<"1", "2">>, <<"0", "0", "0", "1">>, <<"4", "5", "6", "7">>,
               <<"2", "3", "4", "5">>} }
    \cup { P1, P2, P3,
           <<"A", "B", "1", "C", "2">>, <<"M", "H", "1", "1", "1", "1">>,
           <<"U", "K", "1", "X", "X", "X">>, <<"X", "Y", "1", "X", "X", "X">>,
           <<"a", "b", "-", "1", "2", " ", "c", "3">>,
           <<"M", "H", "\n", "1", "2", "\n", "A", "B", "C", "\n", "4", "5", "6", "7">>,
           <<"M", "H", "1", "2", "A", "B", "4", "5", "6", "7", "\n">> }

WordPrefixes == {<<>>, <<"M", "H", "1", "2">>}

\* A blocklisted word followed by digits, alone or after the start of a plate.
WordTexts ==
    { pre \o w \o d : pre \in WordPrefixes, w \in bad_words, d \in DigitRuns }
    \cup { <<"P", "H", "O", "N", "E", "7", "0">>, <<"P", "H", "O", "N", "E", "5", "0">>,
           <<"C", "E", "L", "L", "8", "0">>,
           <<"B", "A", "T", "T", "E", "R", "Y", "1", "0", "0">>,
           <<"M", "H", "1", "2", "C", "A", "R", "B", "U", "S", "1">>,
           <<"M", "H", "1", "2", "B", "U", "S", "C", "A", "R", "4", "5">> }

WordSamples ==
    { pre \o w \o d : pre \in WordPrefixes, w \in bad_words,
                      d \in {<<"1">>, <<"7", "0">>, <<"1", "2", "3">>, <<"4", "5", "6", "7">>} }

TextInputs == ShortTexts \cup PlateTexts \cup WordTexts

\* Engine confidences of a fragment, in hundredths.
Confs == {0, 50, 100}

\* The inputs of a call: one text, or the two texts of a comparison.
InitText ==
    /\ temporal_votes = NoBuffers
    /\ recorded = [k \in AllKeys |-> <<>>]
    /\ pc = [s \in Tasks |-> "idle"]
    /\ req = [s \in Tasks |-> IdleReq]
    /\ nreq = 0
    /\ active_connections = <<>>
    /\ ws = NoBroadcast
    /\ \/ \E t \in TextInputs : last = [op |-> "text", text |-> t]
       \/ \E t \in PlateTexts, o \in WordSamples : last = [op |-> "pair", text |-> t, other |-> o]

\* score_plate_candidate(text)
ScorePlateCandidate ==
    /\ last.op = "text"
    /\ last' = [op |-> "score_plate_candidate", text |-> last.text,
                score |-> score_plate_candidate(last.text)]
    /\ UNCHANGED <<temporal_votes, recorded, pc, req, nreq, active_connections, ws>>

\* is_indian_plate(text)
IsIndianPlate ==
    /\ last.op = "text"
    /\ last' = [op |-> "is_indian_plate", text |-> last.text,
                result |-> is_indian_plate(last.text)]
    /\ UNCHANGED <<temporal_votes, recorded, pc, req, nreq, active_connections, ws>>

\* /plate-base64 with the text as the primary engine's answer: it is stripped,
\* upper-cased, reduced to letters and digits and accepted or not.
SelectGemini ==
    /\ last.op = "text"
    /\ LET cleaned == AlnumOnly(Upper(Strip(last.text)))
       IN  last' = [op |-> "gemini", text |-> last.text,
                    plate |-> IF GeminiAccepts(cleaned) THEN cleaned ELSE None]
    /\ UNCHANGED <<temporal_votes, recorded, pc, req, nreq, active_connections, ws>>

\* run_two_stage_ocr with the text as the reader's one fragment: valid_plate.
SelectOcr(conf) ==
    /\ last.op = "text"
    /\ last' = [op |-> "run_two_stage_ocr", text |-> last.text, conf |-> conf,
                plate |-> ScoreFragments(<< <<last.text, conf>> >>).plate]
    /\ UNCHANGED <<temporal_votes, recorded, pc, req, nreq, active_connections, ws>>

\* The scores of two texts side by side (test_scoring_function).
CompareScores ==
    /\ last.op = "pair"
    /\ last' = [op |-> "compare", text |-> last.text, other |-> last.other,
                indian |-> is_indian_plate(last.text),
                score |-> score_plate_candidate(last.text),
                other_score |-> score_plate_candidate(last.other)]
    /\ UNCHANGED <<temporal_votes, recorded, pc, req, nreq, active_connections, ws>>

NextText ==
    \/ ScorePlateCandidate
    \/ IsIndianPlate
    \/ SelectGemini
    \/ \E conf \in Confs : SelectOcr(conf)
    \/ CompareScores

SpecText == InitText /\ [][NextText]_vars

\* ------------------------------------------------------- the plate region

\* Bounds on the width and the height of the vehicle crop, in pixels.
MaxWidth == 200
MaxHeight == 100

\* int(x) of a product that is exact in binary floating point, or that rounds to
\* the same whole number: w * 0.15, h * 0.25, h * 0.5 and width * 0.1 for sizes
\* under 4000 pixels.
IntTimes(n, num, den) == (n * num) \div den

\* The widths under 330 for which w * 0.7 rounds to just below a whole number
\* (90 * 0.7 is 62.99999999999999).
RoundsLow07 == {90, 170, 180}

\* int(w * 0.7)
IntTimes07(w) == IF w \in RoundsLow07 THEN (w * 7) \div 10 - 1 ELSE (w * 7) \div 10

\* Mutant of detect_plate_region_heuristic: the region is 90% of the width.
detect_plate_region_heuristic_wide(w, h) ==
    [x |-> IntTimes(w, 15, 100),
     y |-> IntTimes(h, 25, 100),
     width |-> IntTimes(w, 9, 10),
     height |-> IntTimes(h, 5, 10)]

\* detect_plate_region_heuristic for an image of w by h pixels
detect_plate_region_heuristic(w, h) ==
    [x |-> IntTimes(w, 15, 100),
     y |-> IntTimes(h, 25, 100),
     width |-> IntTimes07(w),
     height |-> IntTimes(h, 5, 10)]

Max(a, b) == IF a >= b THEN a ELSE b

Min(a, b) == IF a <= b THEN a ELSE b

\* Mutant of crop_plate_region: the padding is 0.2.
crop_plate_region_pad20(w, h, region) ==
    LET pad_x == IntTimes(region.width, 2, 10)
        pad_y == IntTimes(region.height, 2, 10)
    IN  [x1 |-> Max(0, region.x - pad_x),
         y1 |-> Max(0, region.y - pad_y),
         x2 |-> Min(w, region.x + region.width + pad_x),
         y2 |-> Min(h, region.y + region.height + pad_y)]

\* crop_plate_region with padding 0.1: the bounds of the slice img[y1:y2, x1:x2]
crop_plate_region(w, h, region) ==
    LET pad_x == IntTimes(region.width, 1, 10)
        pad_y == IntTimes(region.height, 1, 10)
    IN  [x1 |-> Max(0, region.x - pad_x),
         y1 |-> Max(0, region.y - pad_y),
         x2 |-> Min(w, region.x + region.width + pad_x),
         y2 |-> Min(h, region.y + region.height + pad_y)]

NoRegion == [x |-> 0, y |-> 0, width |-> 0, height |-> 0]
NoSlice == [x1 |-> 0, y1 |-> 0, x2 |-> 0, y2 |-> 0]

\* run_two_stage_ocr has the decoded image: h, w = img_array.shape[:2]
InitRegion ==
    /\ temporal_votes = NoBuffers
    /\ recorded = [k \in AllKeys |-> <<>>]
    /\ pc = [s \in Tasks |-> "idle"]
    /\ req = [s \in Tasks |-> IdleReq]
    /\ nreq = 0
    /\ active_connections = <<>>
    /\ ws = NoBroadcast
    /\ \E w \in 1..MaxWidth, h \in 1..MaxHeight :
          last = [op |-> "image", w |-> w, h |-> h, region |-> NoRegion, slice |-> NoSlice]

\* region = detect_plate_region_heuristic(img_array)
DetectPlateRegionHeuristic ==
    /\ last.op = "image"
    /\ last' = [last EXCEPT !.op = "detect_plate_region_heuristic",
                            !.region = detect_plate_region_heuristic(last.w, last.h)]
    /\ UNCHANGED <<temporal_votes, recorded, pc, req, nreq, active_connections, ws>>

\* plate_crop = crop_plate_region(img_array, region)
CropPlateRegion ==
    /\ last.op = "detect_plate_region_heuristic"
    /\ last' = [last EXCEPT !.op = "crop_plate_region",
                            !.slice = crop_plate_region(last.w, last.h, last.region)]
    /\ UNCHANGED <<temporal_votes, recorded, pc, req, nreq, active_connections, ws>>

NextRegion ==
    \/ DetectPlateRegionHeuristic
    \/ CropPlateRegion

SpecRegion == InitRegion /\ [][NextRegion]_vars

\* ------------------------------------- the detector-assisted plate region
\* (backend/utils/plate_detector.py).  Pixel coordinates are whole numbers and
\* confidences and scores are hundredths.

\* Bound on the number of boxes the detector returns for one image.
MaxBoxes == 2

\* confidence_threshold of detect_plate_region (0.3)
confidence_threshold == 30

\* _heuristic_plate_region: int(w * 0.2), int(h * 0.5), int(w * 0.6), int(h * 0.4),
\* all of which truncate to the floor for sizes under 4000 pixels.
heuristic_plate_region(w, h) ==
    [found |-> TRUE,
     bbox |-> <<IntTimes(w, 2, 10), IntTimes(h, 5, 10), IntTimes(w, 6, 10), IntTimes(h, 4, 10)>>,
     confidence |-> 50,
     method |-> "heuristic"]

\* The score of one box: conf, +0.3 for 2.0 < aspect_ratio < 6.0, +0.2 for
\* 0.4 < y_position < 0.9, +0.1 for 0.01 < relative_size < 0.3.
BoxScore(box, w, h) ==
    LET box_w == box.x2 - box.x1
        box_h == box.y2 - box.y1
        den == Max(box_h, 1)
        aspect == 2 * den < box_w /\ box_w < 6 * den
        position == 4 * 2 * h < 10 * (box.y1 + box.y2) /\ 10 * (box.y1 + box.y2) < 9 * 2 * h
        size == w * h < 100 * box_w * box_h /\ 10 * box_w * box_h < 3 * w * h
    IN  box.conf + (IF aspect THEN 30 ELSE 0) + (IF position THEN 20 ELSE 0)
                 + (IF size THEN 10 ELSE 0)

NoBox == <<>>

\* Mutant of BestBox: the confidence threshold is not applied.
RECURSIVE BestBoxAnyConf(_, _, _, _)
BestBoxAnyConf(boxes, w, h, best) ==
    IF boxes = <<>> THEN best
    ELSE LET box == Head(boxes)
             score == BoxScore(box, w, h)
         IN  BestBoxAnyConf(Tail(boxes), w, h,
                 IF score > best.score
                 THEN [box |-> <<box.x1, box.y1, box.x2 - box.x1, box.y2 - box.y1>>,
                       score |-> score]
                 ELSE best)

\* The loop over results[0].boxes (best_box, best_score).
RECURSIVE BestBox(_, _, _, _)
BestBox(boxes, w, h, best) ==
    IF boxes = <<>> THEN best
    ELSE LET box == Head(boxes)
             score == BoxScore(box, w, h)
         IN  BestBox(Tail(boxes), w, h,
                 IF score > best.score /\ box.conf >= confidence_threshold
                 THEN [box |-> <<box.x1, box.y1, box.x2 - box.x1, box.y2 - box.y1>>,
                       score |-> score]
                 ELSE best)

\* detect_plate_region for an image of w by h pixels.  outcome is what the
\* detector does: "unavailable" (get_plate_model returns None), "raises" (the
\* inference raises), "no_results" (an empty result list) or "boxes".
detect_plate_region(outcome, boxes, w, h) ==
    IF outcome # "boxes" \/ boxes = <<>> THEN heuristic_plate_region(w, h)
    ELSE LET best == BestBox(boxes, w, h, [box |-> NoBox, score |-> 0])
         IN  IF best.box # NoBox
             THEN [found |-> TRUE, bbox |-> best.box, confidence |-> best.score,
                   method |-> "yolo"]
             ELSE heuristic_plate_region(w, h)

\* Boxes of a 100 by 100 image: a plate (every bonus), a tall box (size bonus
\* only), the whole image (position bonus only), a box on the edge of the aspect
\* and position ranges (size bonus only), a box of no height (position bonus only).
BoxShapes ==
    { [x1 |-> 20, y1 |-> 60, x2 |-> 80, y2 |-> 80],
      [x1 |-> 10, y1 |-> 10, x2 |-> 30, y2 |-> 50],
      [x1 |-> 0, y1 |-> 0, x2 |-> 100, y2 |-> 100],
      [x1 |-> 30, y1 |-> 30, x2 |-> 70, y2 |-> 50],
      [x1 |-> 10, y1 |-> 50, x2 |-> 40, y2 |-> 50] }

BoxConfs == {20, 30, 50, 80}

DetectorBoxes ==
    { [x1 |-> b.x1, y1 |-> b.y1, x2 |-> b.x2, y2 |-> b.y2, conf |-> c] :
        b \in BoxShapes, c \in BoxConfs }

BoxLists == UNION {[1..n -> DetectorBoxes] : n \in 0..MaxBoxes}

ImageSizes == {<<100, 100>>}

NoDetection == [found |-> FALSE, bbox |-> NoBox, confidence |-> 0, method |-> "none"]

\* An image and what the detector will do with it.
InitDetect ==
    /\ temporal_votes = NoBuffers
    /\ recorded = [k \in AllKeys |-> <<>>]
    /\ pc = [s \in Tasks |-> "idle"]
    /\ req = [s \in Tasks |-> IdleReq]
    /\ nreq = 0
    /\ active_connections = <<>>
    /\ ws = NoBroadcast
    /\ \E size \in ImageSizes :
          \/ \E outcome \in {"unavailable", "raises", "no_results"} :
                last = [op |-> "frame", w |-> size[1], h |-> size[2], outcome |-> outcome,
                        boxes |-> <<>>, result |-> NoDetection]
          \/ \E boxes \in BoxLists :
                last = [op |-> "frame", w |-> size[1], h |-> size[2], outcome |-> "boxes",
                        boxes |-> boxes, result |-> NoDetection]

\* detect_plate_region(image_array)
DetectPlateRegion ==
    /\ last.op = "frame"
    /\ last' = [last EXCEPT !.op = "detect_plate_region",
                            !.result = detect_plate_region(last.outcome, last.boxes,
                                                           last.w, last.h)]
    /\ UNCHANGED <<temporal_votes, recorded, pc, req, nreq, active_connections, ws>>

NextDetect == DetectPlateRegion

SpecDetect == InitDetect /\ [][NextDetect]_vars

\* ------------------------------------ the websocket connection manager
\* (backend/routes/websocket.py).  A coroutine runs without interruption from
\* one await to the next; at an await the event loop can run the handlers of
\* other websockets.

\* Bound on the number of broadcasts in one run.
MaxBroadcasts == 2

\* The websockets that can connect, each once.
Conns == {"w1", "w2", "w3"}

\* list.remove(x): the first occurrence of x is taken out.
RECURSIVE Remove(_, _)
Remove(list, x) ==
    IF list = <<>> THEN <<>>
    ELSE IF Head(list) = x THEN Tail(list)
    ELSE <<Head(list)>> \o Remove(Tail(list), x)

\* Mutant of RemoveDead: the dead connections are left in the list.
KeepDead(list, dead) == list

\* for dc in dead_connections: if dc in self.active_connections: remove(dc)
RECURSIVE RemoveDead(_, _)
RemoveDead(list, dead) ==
    IF dead = <<>> THEN list
    ELSE RemoveDead(IF Head(dead) \in Range(list) THEN Remove(list, Head(dead)) ELSE list,
                    Tail(dead))

\* A connect or disconnect that runs after a broadcast was called disturbs it.
Disturbed(w) == [w EXCEPT !.undisturbed = IF w.pc = "idle" THEN @ ELSE FALSE]

\* connect: after await websocket.accept() the websocket is appended.
Connect(c) ==
    /\ c \notin ws.opened
    /\ active_connections' = Append(active_connections, c)
    /\ ws' = [Disturbed(ws) EXCEPT !.opened = @ \cup {c}]
    /\ UNCHANGED <<temporal_votes, recorded, last, pc, req, nreq>>

\* The handler of c gets WebSocketDisconnect at its receive_json and calls
\* manager.disconnect(websocket); the handler that awaits broadcast is not at
\* its receive_json.
Disconnect(c) ==
    /\ c \in ws.opened \ ws.closed
    /\ ~(ws.pc = "send" /\ ws.caller = c)
    /\ active_connections' = IF c \in Range(active_connections)
                             THEN Remove(active_connections, c)
                             ELSE active_connections
    /\ ws' = [Disturbed(ws) EXCEPT
                 !.closed = @ \cup {c},
                 !.removed = IF ws.pc = "send" /\ c \in Range(active_connections)
                             THEN @ \cup {c} ELSE @]
    /\ UNCHANGED <<temporal_votes, recorded, last, pc, req, nreq>>

\* broadcast from the top of its for loop to the next await, or to its return:
\* the list iterator gives the item at its index if there is one and the
\* coroutine awaits connection.send_json(message); when the iterator is
\* exhausted the dead connections are removed and broadcast returns.
LoopOn(w) ==
    IF w.index < Len(active_connections)
    THEN /\ ws' = [w EXCEPT !.pc = "send", !.index = @ + 1,
                            !.connection = active_connections[w.index + 1]]
         /\ UNCHANGED active_connections
    ELSE /\ ws' = [w EXCEPT !.pc = "returned", !.connection = "none"]
         /\ active_connections' = RemoveDead(active_connections, w.dead_connections)

\* The handler of websocket c receives a detection_result and calls
\* await manager.broadcast(message).
BroadcastCall(c) ==
    /\ ws.pc \in {"idle", "returned"}
    /\ ws.count < MaxBroadcasts
    /\ c \in ws.opened \ ws.closed
    /\ LoopOn([ws EXCEPT !.caller = c, !.index = 0, !.dead_connections = <<>>,
                         !.start = active_connections, !.sent = <<>>, !.removed = {},
                         !.undisturbed = TRUE, !.count = @ + 1])
    /\ UNCHANGED <<temporal_votes, recorded, last, pc, req, nreq>>

\* connection.send_json(message) returns or raises, and the loop goes on.
SendJsonReturn(raises) ==
    /\ ws.pc = "send"
    /\ LoopOn(IF raises
              THEN [ws EXCEPT !.dead_connections = Append(@, ws.connection)]
              ELSE [ws EXCEPT !.sent = Append(@, ws.connection)])
    /\ UNCHANGED <<temporal_votes, recorded, last, pc, req, nreq>>

InitWs ==
    /\ temporal_votes = NoBuffers
    /\ recorded = [k \in AllKeys |-> <<>>]
    /\ last = NoResult
    /\ pc = [s \in Tasks |-> "idle"]
    /\ req = [s \in Tasks |-> IdleReq]
    /\ nreq = 0
    /\ active_connections = <<>>
    /\ ws = NoBroadcast

NextWs ==
    \/ \E c \in Conns : Connect(c)
    \/ \E c \in Conns : Disconnect(c)
    \/ \E c \in Conns : BroadcastCall(c)
    \/ \E raises \in BOOLEAN : SendJsonReturn(raises)

SpecWs == InitWs /\ [][NextWs]_vars

\* ----------------------------------------------------------------- claims

\* Number of occurrences of x in the sequence s.
Count(s, x) == Cardinality({i \in DOMAIN s : s[i] = x})


\* C1: after any sequence of completed add_temporal_vote and clear_temporal_votes
\* calls, every buffer holds at most TEMPORAL_WINDOW entries and equals the last
\* min(n, TEMPORAL_WINDOW) non-empty plates recorded for its id since its last
\* clear, oldest first.
C1_WindowHoldsLastRecorded ==
    \A k \in AllKeys :
        /\ Len(Votes(temporal_votes, k)) = Min(Len(recorded[k]), TEMPORAL_WINDOW)
        /\ \A i \in 1..Len(Votes(temporal_votes, k)) :
              Votes(temporal_votes, k)[i] =
                  recorded[k][Len(recorded[k]) - Len(Votes(temporal_votes, k)) + i]
        /\ (k \in DOMAIN temporal_votes <=> recorded[k] # <<>>)

\* C1 witness: more votes than the window holds were recorded for one id, the
\* evicted ones differing from the kept ones.
C1_Witness ==
    \E k \in AllKeys :
        /\ Len(recorded[k]) > TEMPORAL_WINDOW
        /\ recorded[k][1] # recorded[k][Len(recorded[k])]
        /\ Len(temporal_votes[k]) = TEMPORAL_WINDOW

\* The buffer the last get_consensus_plate call read.
LastBuffer == Votes(temporal_votes, last.track)

\* C2: for an id with a non-empty buffer get_consensus_plate returns a string
\* whose number of occurrences in the buffer is maximal, with the confidence
\* 100 * occurrences / (current buffer length); for an id without a buffer it
\* returns (None, 0).
C2_ConsensusIsMode ==
    last.op = "get_consensus_plate" =>
        IF LastBuffer = <<>>
        THEN last.plate = None /\ last.vote_count = 0
        ELSE /\ last.plate \in Range(LastBuffer)
             /\ \A x \in Range(LastBuffer) : Count(LastBuffer, x) <= Count(LastBuffer, last.plate)
             /\ last.vote_count = Count(LastBuffer, last.plate)
             /\ last.total = Len(LastBuffer)

\* C2 witness: the buffer [P1, P1, P2] gives P1 with 2 of 3 votes.
C2_Witness ==
    /\ last.op = "get_consensus_plate"
    /\ LastBuffer = <<P1, P1, P2>>
    /\ last.plate = P1 /\ last.vote_count = 2 /\ last.total = 3

\* Index of the first occurrence of x in s.
FirstIndex(s, x) == CHOOSE i \in DOMAIN s : s[i] = x /\ \A j \in 1..(i - 1) : s[j] # x

\* The strings of s that occur most often in it.
Modes(s) == {x \in Range(s) : \A y \in Range(s) : Count(s, y) <= Count(s, x)}

\* C5: among the strings tied for the highest number of occurrences,
\* get_consensus_plate returns the one whose first occurrence in the buffer is the
\* earliest; a plate is returned only when it has at least one vote.
C5_TieGoesToEarliest ==
    last.op = "get_consensus_plate" =>
        /\ last.plate # None =>
              /\ last.vote_count >= 1
              /\ last.plate \in Modes(LastBuffer)
              /\ \A x \in Modes(LastBuffer) :
                    FirstIndex(LastBuffer, last.plate) <= FirstIndex(LastBuffer, x)
        /\ LastBuffer # <<>> => last.plate # None

\* C5 witness: two strings are tied and the one that was seen first, though not
\* last, is returned.
C5_Witness ==
    /\ last.op = "get_consensus_plate"
    /\ Cardinality(Modes(LastBuffer)) = 2
    /\ LastBuffer[Len(LastBuffer)] = last.plate
    /\ LastBuffer[1] = last.plate
    /\ Len(LastBuffer) >= 4

\* A /plate-base64 request of task s has been answered with a body.
Answered(s) == pc[s] = "done" /\ req[s].handler = "plate-base64" /\ req[s].status = 200

\* The buffer of the track id of task s.
Buf(s) == Votes(temporal_votes, req[s].track_id)

Tracked(s) == req[s].track_id # "manual-scan"

\* The consensus over b has at least half of the votes.
HasMajority(b) == b # <<>> /\ \E x \in Range(b) : 100 * Count(b, x) >= 50 * Len(b)

\* The mode of b that was seen first.
EarliestMode(b) ==
    CHOOSE x \in Modes(b) : \A y \in Modes(b) : FirstIndex(b, x) <= FirstIndex(b, y)

\* C3: for a tracked id with useTemporal true the returned plate is the consensus
\* plate of the track's buffer when the consensus has at least 50% of the votes,
\* and the instantaneous plate of the request otherwise.
C3_ConsensusAtHalfElseInstant ==
    \A s \in Tasks :
        (Answered(s) /\ Tracked(s) /\ req[s].use_temporal) =>
            IF HasMajority(Buf(s))
            THEN req[s].final_plate = EarliestMode(Buf(s))
            ELSE req[s].final_plate = req[s].plate

\* C3 witness: a tracked request read one plate and reports another, the
\* consensus of its buffer.
C3_Witness ==
    \E s \in Tasks :
        /\ Answered(s) /\ Tracked(s) /\ req[s].use_temporal
        /\ HasMajority(Buf(s))
        /\ Truthy(req[s].plate)
        /\ req[s].final_plate # req[s].plate

\* C4: a /plate-base64 request for a tracked id that accepts a plate adds exactly
\* one entry to the track's buffer, whichever engine produced the plate (the
\* oldest entry leaving once the window is full).
C4_OneVotePerAcceptedPlate ==
    \A s \in Tasks :
        (Answered(s) /\ Tracked(s) /\ Truthy(req[s].plate)) =>
            Buf(s) = LastN(Append(req[s].before, req[s].plate), TEMPORAL_WINDOW)

\* C6: no vote buffer ever exists under "manual-scan", and no step of a request
\* whose trackId is "manual-scan" changes the vote map.
C6_ManualScanNeverBuffered ==
    /\ []("manual-scan" \notin DOMAIN temporal_votes)
    /\ [][\A s \in Tasks :
            (pc'[s] # pc[s] /\ "manual-scan" \in {req[s].track_id, req'[s].track_id})
                => temporal_votes' = temporal_votes]_vars

\* C6 witness: a manual-scan request was answered with a plate of the OCR fallback.
C6_Witness ==
    \E s \in Tasks :
        /\ Answered(s) /\ req[s].track_id = "manual-scan"
        /\ req[s].engine_used = "EasyOCR" /\ Truthy(req[s].plate)

\* C7: with trackId "manual-scan" or useTemporal false the response carries the
\* instantaneous result only: plate = instantPlate, confidence =
\* instantConfidence, consensusVotes = 0, whatever the buffers hold.
C7_InstantOnlyWithoutTemporal ==
    \A s \in Tasks :
        (Answered(s) /\ (~Tracked(s) \/ ~req[s].use_temporal)) =>
            /\ req[s].final_plate = req[s].plate
            /\ req[s].final_conf = req[s].confidence
            /\ req[s].consensus_votes = 0

\* C7 witness: useTemporal false on a track whose buffer has a consensus that
\* differs from the plate read.
C7_Witness ==
    \E s \in Tasks :
        /\ Answered(s) /\ Tracked(s) /\ ~req[s].use_temporal
        /\ Truthy(req[s].plate)
        /\ HasMajority(Buf(s)) /\ EarliestMode(Buf(s)) # req[s].plate

\* C8: recording the vote and reading the consensus are one atomic step of a
\* request: no other handler runs in between, the consensus is read from a buffer
\* whose latest vote is the request's own accepted plate, never from a buffer
\* longer than the window, and the consensus reported is the one of that buffer.
C8_VoteThenReadAtomic ==
    /\ Cardinality({s \in Tasks : pc[s] # "idle"}) <= 1
    /\ \A s \in Tasks :
          /\ (pc[s] = "consensus" /\ UsesConsensus(req[s])) =>
                /\ Len(Buf(s)) <= TEMPORAL_WINDOW
                /\ ShouldVote(req[s]) =>
                      Buf(s) # <<>> /\ Buf(s)[Len(Buf(s))] = req[s].plate
          /\ (Answered(s) /\ UsesConsensus(req[s]) /\ Truthy(req[s].plate)) =>
                /\ req[s].consensus_total = Len(Buf(s))
                /\ req[s].consensus_votes >= Count(Buf(s), req[s].plate)

\* C8 witness: a request is about to read the consensus of a full window from
\* which its own vote has just evicted the oldest one.
C8_Witness ==
    \E s \in Tasks :
        /\ pc[s] = "consensus" /\ UsesConsensus(req[s]) /\ ShouldVote(req[s])
        /\ Len(recorded[req[s].track_id]) > TEMPORAL_WINDOW
        /\ Len(Buf(s)) = TEMPORAL_WINDOW

\* The engine calls of the request of task s so far.
Called(s, engine) == \E i \in DOMAIN req[s].calls : req[s].calls[i][1] = engine

PrimaryAccepted(s) == \E i \in DOMAIN req[s].calls : req[s].calls[i] = <<"gemini", "accepted">>

\* C9: the primary engine's answer becomes the instantaneous plate only if,
\* stripped of non-alphanumerics, it is non-empty, not "NONE", at least 6
\* characters long and scores strictly positive; then the confidence is 95, the
\* engine is "Gemini Vision" and the OCR fallback is not invoked.
C9_PrimaryAcceptedOnlyIfScored ==
    \A s \in Tasks :
        (PrimaryAccepted(s) \/ req[s].engine_used = "Gemini Vision") =>
            /\ req[s].plate # None /\ req[s].plate # <<>> /\ req[s].plate # NONE
            /\ req[s].plate = AlnumOnly(req[s].plate)
            /\ Len(req[s].plate) >= 6
            /\ score_plate_candidate(req[s].plate) > 0
            /\ req[s].confidence = 95
            /\ req[s].engine_used = "Gemini Vision"
            /\ req[s].calls = << <<"gemini", "accepted">> >>

\* C9 witness: a request answered by the primary engine.
C9_Witness ==
    \E s \in Tasks :
        /\ Answered(s) /\ PrimaryAccepted(s)
        /\ req[s].plate = P1 /\ req[s].confidence = 95

\* The engines of the request of task s have all been asked.
PastEngines(s) ==
    /\ req[s].handler = "plate-base64"
    /\ pc[s] \in {"vote", "trim", "consensus"} \/ Answered(s)

Raised(s, engine) == \E i \in DOMAIN req[s].calls : req[s].calls[i] = <<engine, "raised">>

OcrRaised(s) == Raised(s, "ocr_region") \/ Raised(s, "ocr_full")

C12_BadImageIsClientError ==
    \A s \in Tasks :
        (pc[s] = "done" /\ req[s].handler = "plate-base64" /\ req[s].image # "ok") =>
            /\ req[s].status \in 400..499
            /\ req[s].calls = <<>>
            /\ Votes(temporal_votes, req[s].track_id) = req[s].before

\* No candidate was accepted for the frame of the answered request of s.
NoCandidate(s) == Answered(s) /\ req[s].plate = None

\* C13 as stated: with no candidate accepted for the current frame the response
\* has success false and a null plate, whatever the track id and the earlier votes.
C13_NoCandidateMeansNoPlate ==
    \A s \in Tasks :
        NoCandidate(s) => req[s].success = FALSE /\ req[s].final_plate = None

\* C13, amended: with no candidate accepted for the current frame instantPlate
\* is null, and the response has success false and a null plate unless the
\* request uses the consensus (useTemporal, not manual-scan) and one plate holds
\* at least half of its track's buffer: then the plate is that consensus and
\* success is true.
C13_NoCandidateFallsBackToConsensus ==
    \A s \in Tasks :
        NoCandidate(s) =>
            IF req[s].use_temporal /\ Tracked(s) /\ HasMajority(Buf(s))
            THEN req[s].success = TRUE /\ req[s].final_plate = EarliestMode(Buf(s))
            ELSE req[s].success = FALSE /\ req[s].final_plate = None

\* A frame without a candidate, read by the OCR reader, is answered with the
\* consensus of the two earlier votes of its track.
C13_Witness ==
    \E s \in Tasks :
        /\ NoCandidate(s)
        /\ Called(s, "ocr_region")
        /\ req[s].success = TRUE
        /\ req[s].final_plate = P1
        /\ Buf(s) = <<P1, P2>>

\* C14: clear_temporal_votes(trackId) removes the buffer of that id and no
\* other, clear_temporal_votes(None) removes every buffer, and clearing an id
\* that has no buffer changes nothing.
C14_ClearRemovesOnlyItsBuffer ==
    [][ last'.op = "clear_temporal_votes" =>
            IF last'.track = NoTrackId
            THEN temporal_votes' = NoBuffers
            ELSE /\ last'.track \notin DOMAIN temporal_votes'
                 /\ \A k \in AllKeys \ {last'.track} :
                        /\ k \in DOMAIN temporal_votes' <=> k \in DOMAIN temporal_votes
                        /\ Votes(temporal_votes', k) = Votes(temporal_votes, k) ]_vars

\* The normalized form of the text of the last call.
Norm == Normalize(last.text)

\* C15: a text whose normalized form has fewer than 6 characters scores -50 or
\* less, its combined score (score + 30 * confidence) is negative for every
\* confidence from 0 to 1, and neither engine path selects it as the plate (only
\* a selected plate is passed to add_temporal_vote).
C15_ShortTextNeverSelected ==
    /\ (last.op = "score_plate_candidate" /\ Len(Norm) < 6) =>
            /\ last.score <= -50
            /\ \A conf \in 0..100 : 100 * last.score + 30 * conf < 0
    /\ (last.op \in {"run_two_stage_ocr", "gemini"} /\ Len(Norm) < 6) => last.plate = None

\* A five-character text of the plate grammar with a listed state code, read by
\* the OCR reader with confidence 1.0, is not selected.
C15_Witness ==
    /\ last.op = "run_two_stage_ocr"
    /\ last.text = <<"M", "h", "1", "M", "1">>
    /\ last.conf = 100
    /\ last.plate = None

\* text is a blocklisted word followed by one or more digits.
WordThenDigits(text) ==
    \E w \in bad_words :
        /\ StartsWith(text, w)
        /\ Len(text) > Len(w)
        /\ \A j \in (Len(w) + 1)..Len(text) : text[j] \in Digits

\* C16: the score of a blocklisted word followed by digits is strictly negative.
C16_WordWithDigitsIsNegative ==
    (last.op = "score_plate_candidate" /\ WordThenDigits(last.text)) => last.score < 0

\* MARUTI123 has the best length and letters with digits, and scores -40.
C16_Witness ==
    /\ last.op = "score_plate_candidate"
    /\ last.text = <<"M", "A", "R", "U", "T", "I", "1", "2", "3">>
    /\ last.score = -40

HasBadWord(text) == \E w \in bad_words : Contains(Normalize(text), w)

\* C17 as stated: a text that is_indian_plate accepts and that holds no
\* blocklisted word scores higher than every text that holds one.
C17_PlateOutscoresBlocklisted ==
    (last.op = "compare" /\ last.indian /\ ~HasBadWord(last.text) /\ HasBadWord(last.other)) =>
        last.score > last.other_score

\* C17, amended: a text that is_indian_plate accepts, whose normalized form has
\* at least 6 characters and that holds no blocklisted word, scores higher than
\* every text that holds a blocklisted word (at least 80 against at most 50).
C17_LongPlateOutscoresBlocklisted ==
    (last.op = "compare" /\ last.indian /\ Len(Norm) >= 6
        /\ ~HasBadWord(last.text) /\ HasBadWord(last.other)) =>
        /\ last.score > last.other_score
        /\ last.score >= 80
        /\ last.other_score <= 50

\* MH12AB4567 against PHONE70: 150 against -55.
C17_Witness ==
    /\ last.op = "compare"
    /\ last.text = P1
    /\ last.other = <<"P", "H", "O", "N", "E", "7", "0">>
    /\ last.indian
    /\ last.score = 150
    /\ last.other_score = -55

\* 2 letters, 2 digits, 1 to 3 letters, 1 to 4 digits.
StrictGrammar(n) ==
    \E a \in 1..3, b \in 1..4 :
        /\ Len(n) = 4 + a + b
        /\ \A i \in 1..Len(n) :
              IF i \in {1, 2} \/ (4 < i /\ i <= 4 + a) THEN n[i] \in Letters
              ELSE n[i] \in Digits

\* The same with 1 or 2 digits after the first two letters: every grammar of
\* the validator, for a text without whitespace.
AnyGrammar(n) ==
    \E d \in 1..2, a \in 1..3, b \in 1..4 :
        /\ Len(n) = 2 + d + a + b
        /\ \A i \in 1..Len(n) :
              IF i \in {1, 2} \/ (2 + d < i /\ i <= 2 + d + a) THEN n[i] \in Letters
              ELSE n[i] \in Digits

ListedStateCode(n) == Len(n) >= 2 /\ SubSeq(n, 1, 2) \in ValidatorStateCodes

\* C18: is_indian_plate answers for every text and by its normalized form
\* alone; it is true when the normalized form is 2 letters, 2 digits, 1 to 3
\* letters and 1 to 4 digits, and when it has 6 or more characters, starts with
\* a listed state code and holds a digit; it is false for the empty string and
\* for a text under 6 characters that starts with no listed state code and has
\* no plate grammar.
C18_ValidatorContract ==
    last.op = "is_indian_plate" =>
        /\ last.result \in BOOLEAN
        /\ last.result = is_indian_plate(Norm)
        /\ StrictGrammar(Norm) => last.result
        /\ (Len(Norm) >= 6 /\ ListedStateCode(Norm) /\ \E i \in DOMAIN Norm : Norm[i] \in Digits)
              => last.result
        /\ last.text = <<>> => ~last.result
        /\ (Len(Norm) < 6 /\ ~ListedStateCode(Norm) /\ ~AnyGrammar(Norm)) => ~last.result

\* MH1111 has no plate grammar and is accepted by its state code and digit.
C18_Witness ==
    /\ last.op = "is_indian_plate"
    /\ last.text = <<"M", "h", "1", "1", "1", "1">>
    /\ ~AnyGrammar(Norm)
    /\ last.result

RegionKnown == last.op \in {"detect_plate_region_heuristic", "crop_plate_region"}

\* The heuristic rectangle lies inside the image, the slice is ordered and
\* inside the image, and for 200 by 100 the rectangle is x in [30, 170], y in
\* [25, 75].
RegionAndSliceInside ==
    /\ RegionKnown =>
          /\ 0 <= last.region.x /\ last.region.x + last.region.width <= last.w
          /\ 0 <= last.region.y /\ last.region.y + last.region.height <= last.h
          /\ (last.w = 200 /\ last.h = 100) =>
                /\ last.region.x = 30 /\ last.region.x + last.region.width = 170
                /\ last.region.y = 25 /\ last.region.y + last.region.height = 75
    /\ last.op = "crop_plate_region" =>
          /\ 0 <= last.slice.x1 /\ last.slice.x1 <= last.slice.x2 /\ last.slice.x2 <= last.w
          /\ 0 <= last.slice.y1 /\ last.slice.y1 <= last.slice.y2 /\ last.slice.y2 <= last.h

\* C19 as stated: the heuristic rectangle is x = floor(0.15 w), y = floor(0.25 h),
\* width = floor(0.7 w), height = floor(0.5 h); it lies inside the image, the
\* slice of crop_plate_region satisfies 0 <= x1 <= x2 <= w and 0 <= y1 <= y2 <= h,
\* and for 200 by 100 the rectangle is x in [30, 170], y in [25, 75].
C19_RegionIsFloorsAndInside ==
    /\ RegionKnown =>
          /\ last.region.x = (15 * last.w) \div 100
          /\ last.region.y = (25 * last.h) \div 100
          /\ last.region.width = (7 * last.w) \div 10
          /\ last.region.height = (5 * last.h) \div 10
    /\ RegionAndSliceInside

\* C19, amended: the width of the rectangle is int(w * 0.7) in binary floating
\* point, which is floor(0.7 w) or one less (62 for w = 90); x, y and height are
\* the floors; the rectangle and the slice are inside the image as stated.
C19_RegionInside ==
    /\ RegionKnown =>
          /\ last.region.x = (15 * last.w) \div 100
          /\ last.region.y = (25 * last.h) \div 100
          /\ last.region.width \in {(7 * last.w) \div 10, (7 * last.w) \div 10 - 1}
          /\ last.region.height = (5 * last.h) \div 10
          /\ last.w = 90 => last.region.width = 62
    /\ RegionAndSliceInside

\* The 200 by 100 crop is sliced to x in [16, 184], y in [20, 80].
C19_Witness ==
    /\ last.op = "crop_plate_region"
    /\ last.w = 200 /\ last.h = 100
    /\ last.region = [x |-> 30, y |-> 25, width |-> 140, height |-> 50]
    /\ last.slice = [x1 |-> 16, y1 |-> 20, x2 |-> 184, y2 |-> 80]

\* The boxes of the last frame whose detector confidence meets the threshold.
Qualifying == {i \in DOMAIN last.boxes : last.boxes[i].conf >= 30}

\* The boosted score of a box as the contract words it, in hundredths.
Boosted(b) ==
    LET bw == b.x2 - b.x1
        bh == IF b.y2 - b.y1 >= 1 THEN b.y2 - b.y1 ELSE 1
        centre == b.y1 + b.y2
        area == (b.x2 - b.x1) * (b.y2 - b.y1)
        total == last.w * last.h
    IN  b.conf
        + (IF bw > 2 * bh /\ bw < 6 * bh THEN 30 ELSE 0)
        + (IF 5 * centre > 4 * last.h /\ 5 * centre < 9 * last.h THEN 20 ELSE 0)
        + (IF 100 * area > total /\ 100 * area < 30 * total THEN 10 ELSE 0)

WaitsOnEngine(s) == pc[s] \in {"gemini", "ocr_region", "ocr_full"}

\* C21: requests for different track ids do not block one another: while the
\* request of one task waits on an engine call, a request for another track id
\* can start (and the server has not reached its bound on requests).
C21_OtherTrackCanStart ==
    \A s \in Tasks :
        (WaitsOnEngine(s) /\ req[s].handler = "plate-base64" /\ nreq < MaxRequests) =>
            ENABLED (\E s2 \in Tasks \ {s}, t \in TrackIds \ {req[s].track_id} :
                        BeginPlateBase64(s2, "ok", t, TRUE, TRUE))

\* C23: a reader that raises on the plate region counts as no fragments: the
\* full image is read next.
C23_RegionFailureRerunsFullImage ==
    \A s \in Tasks :
        Raised(s, "ocr_region") => (pc[s] = "ocr_full" \/ Called(s, "ocr_full"))

\* C25: the confidence of the response belongs to the reported plate: the vote
\* percentage when the consensus holds at least half of the votes, and the
\* instantaneous confidence otherwise.
C25_ConfidenceOfReportedPlate ==
    \A s \in Tasks :
        Answered(s) =>
            IF req[s].consensus_plate # None
               /\ 100 * req[s].consensus_votes >= 50 * req[s].consensus_total
            THEN /\ req[s].final_plate = req[s].consensus_plate
                 /\ req[s].final_conf = (100 * req[s].consensus_votes) \div req[s].consensus_total
            ELSE /\ req[s].final_plate = req[s].plate
                 /\ req[s].final_conf = req[s].confidence

\* C26: a request with useTemporal false leaves the vote buffers as they were.
C26_NoVoteWithoutTemporal ==
    \A s \in Tasks :
        (Answered(s) /\ ~req[s].use_temporal) => Buf(s) = req[s].before

\* C24: the slice on which OCR is first tried leaves out the bottom 20% of the
\* crop: its lower bound y2 is at most 0.8 h.
C24_SliceExcludesBottomFifth ==
    last.op = "crop_plate_region" => 5 * last.slice.y2 <= 4 * last.h

\* For a height of 100 the slice ends at row 80, the limit itself.
C24_Witness ==
    /\ last.op = "crop_plate_region"
    /\ last.w = 90 /\ last.h = 100
    /\ last.slice.y2 = 80

\* The track ids whose buffer a step changes.
ChangedBuffers == {k \in AllKeys : Votes(temporal_votes', k) # Votes(temporal_votes, k)}

\* C27: vote buffers are isolated per track id: a call that clears track id A,
\* the empty string included, changes the buffer of no other track id, and
\* every other call (a vote for one track id, a read) changes one buffer at
\* most; only the clear without a track id touches them all.
C27_BuffersIsolatedPerTrack ==
    [][ IF last'.op = "clear_temporal_votes"
        THEN last'.track # NoTrackId => ChangedBuffers \subseteq {last'.track}
        ELSE Cardinality(ChangedBuffers) <= 1 ]_vars

\* The text of the last call as the gates see it: upper case, letters and digits.
Cleaned == AlnumOnly(Upper(last.text))

BadWordsIn(text) == {w \in bad_words : Contains(text, w)}

\* The text has the form the validator accepts.
PlateLike(n) ==
    \/ AnyGrammar(n)
    \/ Len(n) >= 6 /\ ListedStateCode(n) /\ \E i \in DOMAIN n : n[i] \in Digits

AtGate == last.op \in {"gemini", "run_two_stage_ocr"}

WindowOf(k, p) ==
    /\ Len(recorded[k]) >= TEMPORAL_WINDOW
    /\ \A i \in 1..TEMPORAL_WINDOW : recorded[k][Len(recorded[k]) - i + 1] = p

\* C29: once the same plate p has been recorded as the 10 most recent votes of
\* a track id, whatever was recorded before, the buffer holds p only,
\* get_consensus_plate returns p with all the votes, and a tracked request that
\* reads p next (it records p, reads the consensus and chooses) reports p.
C29_WindowFlushesStaleVotes ==
    \A k \in AllKeys, p \in {P1, P2} :
        WindowOf(k, p) =>
            /\ Votes(temporal_votes, k) = [i \in 1..TEMPORAL_WINDOW |-> p]
            /\ get_consensus_plate(temporal_votes, k) =
                  [plate |-> p, vote_count |-> TEMPORAL_WINDOW, total |-> TEMPORAL_WINDOW]
            /\ (last.op = "get_consensus_plate" /\ last.track = k) =>
                  (last.plate = p /\ last.vote_count = last.total)
            /\ FinalPlate(get_consensus_plate(add_temporal_vote(temporal_votes, k, p), k), p) = p

\* One other plate and then ten times MH12AB4567 were recorded for car-1, and
\* get_consensus_plate answered MH12AB4567 with 10 votes of 10.
C29_Witness ==
    /\ recorded["car-1"] = <<P2>> \o [i \in 1..TEMPORAL_WINDOW |-> P1]
    /\ last.op = "get_consensus_plate"
    /\ last.track = "car-1"
    /\ last.plate = P1
    /\ last.vote_count = 10

C30_BroadcastReachesEveryStayer ==
    ws.pc = "returned" =>
        \A c \in Range(ws.start) \ (ws.removed \cup Range(ws.dead_connections)) :
            Count(ws.sent, c) = 1


====
